---- MODULE Spec2Model ----
(***************************************************************************)
(* Hybrid container codec of DiscordImageSync (client/hybrid_converter.py) *)
(* as a state machine over a small filesystem.                             *)
(*                                                                         *)
(* A Python str is a sequence of Unicode code points, a bytes object a     *)
(* sequence of 0..255.  A path is a sequence of components, each a str.    *)
(* A world is [files, dirs]: files maps the paths of the existing regular  *)
(* files to their bytes, dirs is the set of existing directories.          *)
(***************************************************************************)
EXTENDS Integers, Sequences, FiniteSets, TLC

(***************************************************************************)
(* Program constants (hybrid_converter.py, lines 13-16).                   *)
(***************************************************************************)
HYBRID_HEADER_SIZE == 200
MAX_FILE_SIZE_MB == 10
\* SIZE_MARGIN = 1.02 as the exact ratio SIZE_MARGIN_NUM / SIZE_MARGIN_DEN.
\* For an integer size s the float product s * 1.02 differs from
\* MAX_FILE_SIZE_MB * 1024 * 1024 by at least 0.14 (s * 102 is never within
\* 13 of 1048576000), far more than the rounding error of a double, so the
\* float comparison and the integer comparison below decide alike.
SIZE_MARGIN_NUM == 102
SIZE_MARGIN_DEN == 100
MIN_FILE_SIZE == HYBRID_HEADER_SIZE

(***************************************************************************)
(* Bounds of the model.                                                    *)
(***************************************************************************)
\* Calls of the codec in one behaviour of Spec.
MaxCalls == 2
\* Bytes a source payload may have beyond MIN_FILE_SIZE.
MaxExtra == 1
\* Half-width of the windows of sizes SpecSize samples around both limits.
SizeWindow == 30
\* Calls in one behaviour of SpecFaults, and of SpecTamper.
MaxFaultyCalls == 1
MaxTamperCalls == 1
\* Largest max_file_size_mb the configuration supplies besides the default.
MaxConfigMB == 2
\* Runs of process_images in one behaviour of SpecBatch.
MaxBatchRuns == 1
\* Extractions of the file an interrupted conversion left, in SpecInterrupt.
MaxInterruptedExtracts == 1
\* Calls of get_logger in one behaviour of SpecLogger.
MaxLoggerCalls == 4
\* Half-width of the window of path lengths SpecHeader tries.
PathWindow == 5
\* Calls of convert_to_hybrid in one behaviour of SpecChanging, and writes
\* of the other process to the source during one call.
MaxChangingCalls == 1
MaxSourceChanges == 1

(***************************************************************************)
(* Text.                                                                   *)
(***************************************************************************)
NL == 10
COLON == 58
SLASH == 47

T_TAG == <<72, 89, 66, 82, 73, 68, 45, 72, 69, 65, 68, 69, 82, 45, 86, 49>>
T_SHA256 == <<83, 72, 65, 50, 53, 54>>
T_PATH == <<80, 97, 116, 104>>
T_SIZE == <<83, 105, 122, 101>>
T_TIME == <<84, 105, 109, 101>>
T_OFFSET == <<79, 102, 102, 115, 101, 116>>
T_DOTDOT == <<46, 46>>

\* str(n) for n >= 0: the decimal digits, no sign, no leading zero.
RECURSIVE Dec(_)
Dec(n) == IF n < 10 THEN <<48 + n>> ELSE Dec(n \div 10) \o <<48 + (n % 10)>>

\* One lowercase hexadecimal digit.
HexDigit(d) == IF d < 10 THEN 48 + d ELSE 87 + d

\* n (below 16^7) in lowercase hexadecimal, zero-filled on the left to w
\* digits.
HexFill(n, w) ==
    [i \in 1 .. w |->
        IF w - i >= 7 THEN 48 ELSE HexDigit((n \div (16 ^ (w - i))) % 16)]

\* "sep".join(parts)
RECURSIVE Join(_, _)
Join(parts, sep) ==
    IF Len(parts) = 0 THEN <<>>
    ELSE IF Len(parts) = 1 THEN parts[1]
    ELSE parts[1] \o <<sep>> \o Join(Tail(parts), sep)

Max(S) == CHOOSE x \in S : \A y \in S : y <= x
Min(S) == CHOOSE x \in S : \A y \in S : x <= y

\* The code points str.strip() removes (str.isspace()).
Whitespace ==
    {9, 10, 11, 12, 13, 28, 29, 30, 31, 32, 133, 160, 5760, 8232, 8233, 8239,
     8287, 12288} \cup (8192 .. 8202)

\* str.strip(): from the first to the last character that is no whitespace.
Strip(s) ==
    IF \A i \in 1 .. Len(s) : s[i] \in Whitespace THEN <<>>
    ELSE LET first == CHOOSE i \in 1 .. Len(s) :
                        /\ s[i] \notin Whitespace
                        /\ \A j \in 1 .. (i - 1) : s[j] \in Whitespace
             last_ == CHOOSE i \in 1 .. Len(s) :
                        /\ s[i] \notin Whitespace
                        /\ \A j \in (i + 1) .. Len(s) : s[j] \in Whitespace
         IN  SubSeq(s, first, last_)

\* bytes.rstrip(b'\x00')
RStripZero(b) ==
    LET k == CHOOSE i \in 0 .. Len(b) :
                /\ i = 0 \/ b[i] # 0
                /\ \A j \in (i + 1) .. Len(b) : b[j] = 0
    IN  SubSeq(b, 1, k)

\* Index of the first c in s, 0 when there is none.
FirstIndex(s, c) ==
    IF \A i \in 1 .. Len(s) : s[i] # c THEN 0
    ELSE CHOOSE i \in 1 .. Len(s) :
            s[i] = c /\ \A j \in 1 .. (i - 1) : s[j] # c

\* str.split('\n'): the lines between the newlines (at least one, maybe empty).
SplitLines(s) ==
    LET nl == {i \in 1 .. Len(s) : s[i] = NL}
        \* position of the k-th newline; 0 before the first, Len + 1 after the last
        pos(k) == IF k = 0 THEN 0
                  ELSE IF k > Cardinality(nl) THEN Len(s) + 1
                  ELSE CHOOSE i \in nl : Cardinality({j \in nl : j <= i}) = k
    IN  [k \in 1 .. (Cardinality(nl) + 1) |->
            SubSeq(s, pos(k - 1) + 1, pos(k) - 1)]

(***************************************************************************)
(* UTF-8 (str.encode('utf-8'), bytes.decode('utf-8'), both strict).        *)
(***************************************************************************)
IsSurrogate(c) == c >= 55296 /\ c <= 57343

Utf8Char(c) ==
    IF c < 128 THEN <<c>>
    ELSE IF c < 2048 THEN <<192 + (c \div 64), 128 + (c % 64)>>
    ELSE IF c < 65536
    THEN <<224 + (c \div 4096), 128 + ((c \div 64) % 64), 128 + (c % 64)>>
    ELSE <<240 + (c \div 262144), 128 + ((c \div 4096) % 64),
           128 + ((c \div 64) % 64), 128 + (c % 64)>>

\* The encodings of s[lo..hi], concatenated (by halves).
RECURSIVE Utf8Range(_, _, _)
Utf8Range(s, lo, hi) ==
    IF lo > hi THEN <<>>
    ELSE IF lo = hi THEN Utf8Char(s[lo])
    ELSE LET mid == (lo + hi) \div 2
         IN  Utf8Range(s, lo, mid) \o Utf8Range(s, mid + 1, hi)

Utf8Bytes(s) == Utf8Range(s, 1, Len(s))

\* encode raises UnicodeEncodeError on a lone surrogate (a file name whose
\* bytes were not UTF-8 is decoded by the OS layer with surrogateescape).
Utf8Encode(s) ==
    IF \E i \in 1 .. Len(s) : IsSurrogate(s[i])
    THEN [ok |-> FALSE, bytes |-> <<>>]
    ELSE [ok |-> TRUE, bytes |-> Utf8Bytes(s)]

IsCont(b, i) == i <= Len(b) /\ b[i] >= 128 /\ b[i] <= 191

\* The code point starting at b[i] and the number of bytes it takes;
\* n = 0 when the bytes at i are not a well-formed UTF-8 sequence.
Utf8At(b, i) ==
    LET x == b[i] IN
    IF x < 128 THEN [n |-> 1, c |-> x]
    ELSE IF x >= 194 /\ x <= 223 /\ IsCont(b, i + 1)
    THEN [n |-> 2, c |-> (x - 192) * 64 + (b[i + 1] - 128)]
    ELSE IF x >= 224 /\ x <= 239 /\ IsCont(b, i + 1) /\ IsCont(b, i + 2)
    THEN LET c == (x - 224) * 4096 + (b[i + 1] - 128) * 64 + (b[i + 2] - 128)
         IN IF c < 2048 \/ IsSurrogate(c) THEN [n |-> 0, c |-> 0]
            ELSE [n |-> 3, c |-> c]
    ELSE IF x >= 240 /\ x <= 244 /\ IsCont(b, i + 1) /\ IsCont(b, i + 2)
            /\ IsCont(b, i + 3)
    THEN LET c == (x - 240) * 262144 + (b[i + 1] - 128) * 4096
                  + (b[i + 2] - 128) * 64 + (b[i + 3] - 128)
         IN IF c < 65536 \/ c > 1114111 THEN [n |-> 0, c |-> 0]
            ELSE [n |-> 4, c |-> c]
    ELSE [n |-> 0, c |-> 0]

\* b[lo..hi] decoded, lo being where a character starts.  The range is cut
\* at a character start m in its second half and the two parts decoded; with
\* no start there, the second half is the tail of one character, at most
\* three continuation bytes, and the cut is at a start before it; a range
\* with no start after lo must be exactly one character.
RECURSIVE Utf8DecodeRange(_, _, _)
Utf8DecodeRange(b, lo, hi) ==
    IF lo > hi THEN [ok |-> TRUE, text |-> <<>>]
    ELSE LET mid == (lo + hi + 1) \div 2
             upper == (IF mid = lo THEN lo + 1 ELSE mid) .. hi
             lower == (lo + 1) .. (mid - 1)
             bad == [ok |-> FALSE, text |-> <<>>]
             cut(m) ==
                 LET l == Utf8DecodeRange(b, lo, m - 1) IN
                 IF ~l.ok THEN bad
                 ELSE LET r == Utf8DecodeRange(b, m, hi) IN
                      IF ~r.ok THEN bad
                      ELSE [ok |-> TRUE, text |-> l.text \o r.text]
         IN  IF \E i \in upper : ~IsCont(b, i)
             THEN cut(CHOOSE i \in upper : ~IsCont(b, i))
             ELSE IF hi - mid >= 3 THEN bad
             ELSE IF \E i \in lower : ~IsCont(b, i)
             THEN cut(CHOOSE i \in lower : ~IsCont(b, i))
             ELSE LET u == Utf8At(b, lo) IN
                  IF u.n = hi - lo + 1 THEN [ok |-> TRUE, text |-> <<u.c>>]
                  ELSE bad

Utf8Decode(b) == Utf8DecodeRange(b, 1, Len(b))

(***************************************************************************)
(* hashlib.sha256(...).hexdigest(): a deterministic digest of the whole    *)
(* byte sequence, 64 lowercase hexadecimal characters.  SHA-256 itself is  *)
(* stood in for by a polynomial digest modulo a prime, which like SHA-256  *)
(* depends on every byte, on their order and on the length (a change of    *)
(* one byte always changes it: the prime divides neither the difference    *)
(* nor a power of the base).                                               *)
(***************************************************************************)
DigestModulus == 32749
DigestBase == 257
DigestHexLen == 64

\* DigestBase ^ k modulo DigestModulus, by squaring.
RECURSIVE DigestPow(_)
DigestPow(k) ==
    IF k = 0 THEN 1
    ELSE LET h == DigestPow(k \div 2)
             sq == (h * h) % DigestModulus
         IN  IF k % 2 = 0 THEN sq ELSE (sq * DigestBase) % DigestModulus

\* sum of (b[i] + 1) * DigestBase ^ (hi - i) for i in lo..hi, by halves.
RECURSIVE DigestRange(_, _, _)
DigestRange(b, lo, hi) ==
    IF lo > hi THEN 0
    ELSE IF lo = hi THEN b[lo] + 1
    ELSE LET mid == (lo + hi) \div 2
         IN  (DigestRange(b, lo, mid) * DigestPow(hi - mid)
                + DigestRange(b, mid + 1, hi)) % DigestModulus

sha256_hexdigest(b) ==
    HexFill((DigestPow(Len(b)) + DigestRange(b, 1, Len(b))) % DigestModulus,
            DigestHexLen)

(***************************************************************************)
(* SizeValidator.                                                          *)
(***************************************************************************)
\* The result of a system call that can fail: os.path.getsize, open/read.
OSError == [ok |-> FALSE, val |-> 0]
Ok(v) == [ok |-> TRUE, val |-> v]

MSG_TOO_SMALL == "too_small"
MSG_TOO_LARGE == "too_large"
MSG_GETSIZE_ERROR == "getsize_error"

\* validate_file_size with the 2% margin left out of the upper limit.
validate_file_size_nomargin(getsize) ==
    IF ~getsize.ok THEN [valid |-> FALSE, msg |-> MSG_GETSIZE_ERROR]
    ELSE IF getsize.val < MIN_FILE_SIZE
    THEN [valid |-> FALSE, msg |-> MSG_TOO_SMALL]
    ELSE IF getsize.val > MAX_FILE_SIZE_MB * 1024 * 1024
    THEN [valid |-> FALSE, msg |-> MSG_TOO_LARGE]
    ELSE [valid |-> TRUE, msg |-> ""]

\* validate_file_size, from the outcome of os.path.getsize(file_path):
\* the (bool, message) pair it returns.
validate_file_size(getsize) ==
    IF ~getsize.ok THEN [valid |-> FALSE, msg |-> MSG_GETSIZE_ERROR]
    ELSE IF getsize.val < MIN_FILE_SIZE
    THEN [valid |-> FALSE, msg |-> MSG_TOO_SMALL]
    ELSE IF getsize.val * SIZE_MARGIN_NUM
              > MAX_FILE_SIZE_MB * 1024 * 1024 * SIZE_MARGIN_DEN
    THEN [valid |-> FALSE, msg |-> MSG_TOO_LARGE]
    ELSE [valid |-> TRUE, msg |-> ""]

(***************************************************************************)
(* HeaderCodec.                                                            *)
(***************************************************************************)
\* header_lines of create_hybrid_header; timestamp is what
\* datetime.utcnow().strftime("%Y-%m-%dT%H:%M:%SZ") gave.
header_lines(sha256_hash, relative_path, original_size, timestamp) ==
    << T_TAG,
       T_SHA256 \o <<COLON>> \o sha256_hash,
       T_PATH \o <<COLON>> \o relative_path,
       T_SIZE \o <<COLON>> \o Dec(original_size),
       T_TIME \o <<COLON>> \o timestamp,
       T_OFFSET \o <<COLON>> \o Dec(HYBRID_HEADER_SIZE) >>

header_text(sha256_hash, relative_path, original_size, timestamp) ==
    Join(header_lines(sha256_hash, relative_path, original_size, timestamp), NL)

Zeros(n) == [i \in 1 .. n |-> 0]

\* create_hybrid_header padding one byte too few.
create_header_shortpad(sha256_hash, relative_path, original_size, timestamp) ==
    LET enc == Utf8Encode(header_text(sha256_hash, relative_path,
                                      original_size, timestamp))
    IN  IF ~enc.ok THEN [ok |-> FALSE, bytes |-> <<>>]
        ELSE IF Len(enc.bytes) >= HYBRID_HEADER_SIZE
        THEN [ok |-> FALSE, bytes |-> <<>>]
        ELSE [ok |-> TRUE,
              bytes |-> enc.bytes
                          \o Zeros(HYBRID_HEADER_SIZE - Len(enc.bytes) - 1)]

\* create_hybrid_header measuring the text in characters, not in bytes.
create_header_chars(sha256_hash, relative_path, original_size, timestamp) ==
    LET text == header_text(sha256_hash, relative_path, original_size,
                            timestamp)
        enc == Utf8Encode(text)
    IN  IF ~enc.ok THEN [ok |-> FALSE, bytes |-> <<>>]
        ELSE IF Len(text) >= HYBRID_HEADER_SIZE
        THEN [ok |-> FALSE, bytes |-> <<>>]
        ELSE [ok |-> TRUE,
              bytes |-> enc.bytes
                          \o Zeros(IF Len(enc.bytes) < HYBRID_HEADER_SIZE
                                   THEN HYBRID_HEADER_SIZE - Len(enc.bytes)
                                   ELSE 0)]

\* create_hybrid_header refusing only a text longer than the header (> for >=).
create_hybrid_header_gt(sha256_hash, relative_path, original_size, timestamp) ==
    LET enc == Utf8Encode(header_text(sha256_hash, relative_path,
                                      original_size, timestamp))
    IN  IF ~enc.ok THEN [ok |-> FALSE, bytes |-> <<>>]
        ELSE IF Len(enc.bytes) > HYBRID_HEADER_SIZE
        THEN [ok |-> FALSE, bytes |-> <<>>]
        ELSE [ok |-> TRUE,
              bytes |-> enc.bytes \o Zeros(HYBRID_HEADER_SIZE - Len(enc.bytes))]

\* create_hybrid_header: ok = FALSE when it raises (UnicodeEncodeError from
\* encode, ValueError when the text does not fit), else the padded buffer.
create_hybrid_header(sha256_hash, relative_path, original_size, timestamp) ==
    LET enc == Utf8Encode(header_text(sha256_hash, relative_path,
                                      original_size, timestamp))
    IN  IF ~enc.ok THEN [ok |-> FALSE, bytes |-> <<>>]
        ELSE IF Len(enc.bytes) >= HYBRID_HEADER_SIZE
        THEN [ok |-> FALSE, bytes |-> <<>>]
        ELSE [ok |-> TRUE,
              bytes |-> enc.bytes \o Zeros(HYBRID_HEADER_SIZE - Len(enc.bytes))]

\* The dict a header text parses to (lines 213-217): every line holding a
\* ':' is cut at its first ':', key and value stripped; a later line with
\* the same key replaces the earlier entry.
LineKey(line) == Strip(SubSeq(line, 1, FirstIndex(line, COLON) - 1))
LineValue(line) == Strip(SubSeq(line, FirstIndex(line, COLON) + 1, Len(line)))

ParseLines(lines) ==
    LET with == {k \in 1 .. Len(lines) : FirstIndex(lines[k], COLON) # 0}
        key == [k \in with |-> LineKey(lines[k])]
    IN  [x \in {key[k] : k \in with} |->
            LineValue(lines[Max({k \in with : key[k] = x})])]

EmptyDict == <<>>

\* parse_header_bytes without the length check of lines 205-207.
parse_header_bytes_nolen(header_bytes) ==
    LET dec == Utf8Decode(RStripZero(header_bytes)) IN
    IF ~dec.ok THEN [res |-> "decode", info |-> EmptyDict]
    ELSE [res |-> "ok", info |-> ParseLines(SplitLines(dec.text))]

\* Lines 205-219 on the bytes f.read(HYBRID_HEADER_SIZE) returned:
\* "short" (logged, None), "decode" (UnicodeDecodeError) or "ok" with the dict.
parse_header_bytes(header_bytes) ==
    IF Len(header_bytes) < HYBRID_HEADER_SIZE
    THEN [res |-> "short", info |-> EmptyDict]
    ELSE LET dec == Utf8Decode(RStripZero(header_bytes)) IN
         IF ~dec.ok THEN [res |-> "decode", info |-> EmptyDict]
         ELSE [res |-> "ok", info |-> ParseLines(SplitLines(dec.text))]

\* dict.get(key, default)
DictGet(info, key, default) ==
    IF key \in DOMAIN info THEN info[key] ELSE default

(***************************************************************************)
(* os.path on normalised absolute POSIX paths.                             *)
(***************************************************************************)
os_path_basename(p) == IF Len(p) = 0 THEN <<>> ELSE p[Len(p)]
os_path_dirname(p) == IF Len(p) = 0 THEN <<>> ELSE SubSeq(p, 1, Len(p) - 1)

\* Length of the longest common prefix of two component lists.
CommonLen(p, q) ==
    LET m == IF Len(p) < Len(q) THEN Len(p) ELSE Len(q)
        S == {k \in 0 .. m : \A j \in 1 .. k : p[j] = q[j]}
    IN  CHOOSE k \in S : \A k2 \in S : k2 <= k

\* os.path.relpath(path, start): one '..' per component of start below the
\* common prefix, then the rest of path; '.' when nothing is left.
os_path_relpath(path, start) ==
    LET c == CommonLen(path, start)
        ups == [i \in 1 .. (Len(start) - c) |-> T_DOTDOT]
        rel == ups \o SubSeq(path, c + 1, Len(path))
    IN  IF Len(rel) = 0 THEN <<46>> ELSE Join(rel, SLASH)

\* All ancestors of p that os.makedirs(p, exist_ok=True) leaves existing.
Ancestors(p) == {SubSeq(p, 1, k) : k \in 1 .. Len(p)}

(***************************************************************************)
(* The filesystem.                                                         *)
(***************************************************************************)
Exists(w, p) == p = <<>> \/ p \in w.dirs \/ p \in DOMAIN w.files

\* os.path.getsize(p); failed is an error of the system call itself.
getsize(w, p, failed) ==
    IF failed \/ p \notin DOMAIN w.files THEN OSError
    ELSE Ok(Len(w.files[p]))

\* open(p, 'rb') and read to the end.
read_file(w, p, failed) ==
    IF failed \/ p \notin DOMAIN w.files THEN OSError ELSE Ok(w.files[p])

\* os.makedirs(d, exist_ok=True): fails when a regular file is in the way.
makedirs(w, d, failed) ==
    IF failed \/ \E a \in Ancestors(d) : a \in DOMAIN w.files
    THEN [ok |-> FALSE, w |-> w]
    ELSE [ok |-> TRUE, w |-> [w EXCEPT !.dirs = @ \cup Ancestors(d)]]

\* open(p, 'wb'): needs the parent directory, and p not to be a directory.
CanOpenForWrite(w, p) ==
    /\ Len(p) > 0
    /\ p \notin w.dirs
    /\ (os_path_dirname(p) = <<>> \/ os_path_dirname(p) \in w.dirs)

WriteFile(w, p, bytes) == [w EXCEPT !.files = (p :> bytes) @@ @]

\* A failure the environment injects into one call: at names the system
\* call that fails ("none": no failure), cut the number of bytes that
\* reached the file when a write fails.
NoFault == [at |-> "none", cut |-> 0]

(***************************************************************************)
(* The logger (logger.py): one entry per log_error / log_exception call.    *)
(***************************************************************************)
log_error(what, target) == [via |-> "log_error", what |-> what, target |-> target]
log_exception(context, target) ==
    [via |-> "log_exception", what |-> context, target |-> target]

\* _global_logger = None (line 144); an ErrorLogger instance is known by the
\* number it was created as.
None == 0
N_error_log == <<101, 114, 114, 111, 114, 46, 108, 111, 103>>
\* The default of log_file: "error.log" in the working directory.
DefaultLogFile == <<N_error_log>>
LogMod0 == [global_logger |-> None, instances |-> <<>>]

\* ErrorLogger(log_file), lines 37-46: the new object, and the world after
\* the directory of log_file was made if it was missing; ok = FALSE when
\* os.makedirs raises.
ErrorLogger(w, log_file, failed) ==
    LET log_dir == os_path_dirname(log_file)
        m == IF log_dir # <<>> /\ ~Exists(w, log_dir)
             THEN makedirs(w, log_dir, failed)
             ELSE [ok |-> TRUE, w |-> w]
    IN  [ok |-> m.ok, self |-> [log_file |-> log_file], w |-> m.w]

\* get_logger making a new logger when asked for a log file other than the
\* current logger's.
get_logger_per_file(mod, w, log_file, failed) ==
    IF \/ mod.global_logger = None
       \/ mod.instances[mod.global_logger].log_file # log_file
    THEN LET e == ErrorLogger(w, log_file, failed)
             id == Len(mod.instances) + 1
         IN  IF ~e.ok THEN [raised |-> TRUE, mod |-> mod, w |-> e.w, ret |-> None]
             ELSE [raised |-> FALSE,
                   mod |-> [global_logger |-> id,
                            instances |-> Append(mod.instances, e.self)],
                   w |-> e.w, ret |-> id]
    ELSE [raised |-> FALSE, mod |-> mod, w |-> w, ret |-> mod.global_logger]

\* get_logger(log_file), lines 147-160, on the module's state mod; raised
\* when ErrorLogger(log_file) raises, _global_logger then staying None.
get_logger(mod, w, log_file, failed) ==
    IF mod.global_logger = None
    THEN LET e == ErrorLogger(w, log_file, failed)
             id == Len(mod.instances) + 1
         IN  IF ~e.ok THEN [raised |-> TRUE, mod |-> mod, w |-> e.w, ret |-> None]
             ELSE [raised |-> FALSE,
                   mod |-> [global_logger |-> id,
                            instances |-> Append(mod.instances, e.self)],
                   w |-> e.w, ret |-> id]
    ELSE [raised |-> FALSE, mod |-> mod, w |-> w, ret |-> mod.global_logger]

(***************************************************************************)
(* HashComputer.                                                           *)
(***************************************************************************)
\* calculate_sha256(file_path): ok = FALSE when it raises.
calculate_sha256(w, file_path, failed) ==
    LET r == read_file(w, file_path, failed)
    IN  IF r.ok THEN Ok(sha256_hexdigest(r.val)) ELSE OSError

(***************************************************************************)
(* ContainerWriter: convert_to_hybrid as its steps in order.  A step takes *)
(* the call's frame c (the world, the locals, what was logged, the steps   *)
(* entered) and returns it after the step; once the call has returned      *)
(* (c.done) the later steps leave the frame alone.                         *)
(***************************************************************************)
NoRoot == [given |-> FALSE, path |-> <<>>]
Root(p) == [given |-> TRUE, path |-> p]

Frame(w) ==
    [w |-> w, done |-> FALSE, ret |-> FALSE, log |-> <<>>, steps |-> <<>>,
     sha |-> <<>>, rel |-> <<>>, size |-> 0, header |-> <<>>, data |-> <<>>,
     info |-> EmptyDict, none |-> FALSE, raised |-> <<>>]

Enter(c, step) == [c EXCEPT !.steps = Append(@, step)]

\* log and return False
Fail(c, entry) == [c EXCEPT !.done = TRUE, !.ret = FALSE, !.log = Append(@, entry)]

\* A function called by this call left by raising (lines 40 and 101), and
\* the raise reached this call's except clause.
Caught(c, callee) == [c EXCEPT !.raised = Append(@, callee)]

\* Lines 126-130.
conv_validate(c, input_file, fault) ==
    IF c.done THEN c
    ELSE LET v == validate_file_size(
                     getsize(c.w, input_file, fault.at = "getsize"))
             e == Enter(c, "validate")
         IN  IF ~v.valid THEN Fail(e, log_error(v.msg, input_file)) ELSE e

\* Lines 132-137.
conv_hash(c, input_file, fault) ==
    IF c.done THEN c
    ELSE LET h == calculate_sha256(c.w, input_file, fault.at = "hash")
             e == Enter(c, "hash")
         IN  IF ~h.ok
             THEN Fail(Caught(e, "calculate_sha256"),
                       log_exception("sha256", input_file))
             ELSE [e EXCEPT !.sha = h.val]

\* Lines 139-147.
conv_relpath(c, input_file, root_dir) ==
    IF c.done THEN c
    ELSE [Enter(c, "relpath") EXCEPT
            !.rel = IF root_dir.given
                    THEN os_path_relpath(input_file, root_dir.path)
                    ELSE os_path_basename(input_file)]

\* Line 150; an error here is caught by the outer handler (lines 183-185).
conv_getsize(c, input_file, fault) ==
    IF c.done THEN c
    ELSE LET g == getsize(c.w, input_file, fault.at = "getsize2")
             e == Enter(c, "getsize")
         IN  IF ~g.ok THEN Fail(e, log_exception("unexpected", input_file))
             ELSE [e EXCEPT !.size = g.val]

\* Lines 152-157.
conv_header(c, input_file, now) ==
    IF c.done THEN c
    ELSE LET h == create_hybrid_header(c.sha, c.rel, c.size, now)
             e == Enter(c, "header")
         IN  IF ~h.ok
             THEN Fail(Caught(e, "create_hybrid_header"),
                       log_exception("header", input_file))
             ELSE [e EXCEPT !.header = h.bytes]

\* Lines 159-165.
conv_read(c, input_file, fault) ==
    IF c.done THEN c
    ELSE LET r == read_file(c.w, input_file, fault.at = "read")
             e == Enter(c, "read")
         IN  IF ~r.ok THEN Fail(e, log_exception("read", input_file))
             ELSE [e EXCEPT !.data = r.val]

\* ensure_dir run whether or not an earlier step has already returned: the
\* directory made ahead of the checks.
ensure_dir_early(c, output_file, fault, context, target) ==
    LET output_dir == os_path_dirname(output_file)
        e == Enter(c, "mkdir")
    IN  IF output_dir # <<>> /\ ~Exists(c.w, output_dir)
        THEN LET m == makedirs(c.w, output_dir, fault.at = "makedirs")
             IN  IF ~m.ok THEN Fail(e, log_exception(context, target))
                 ELSE [e EXCEPT !.w = m.w]
        ELSE e

\* Lines 169-172: the directory of output_file is created if it is missing.
ensure_dir(c, output_file, fault, context, target) ==
    IF c.done THEN c
    ELSE LET output_dir == os_path_dirname(output_file)
             e == Enter(c, "mkdir")
         IN  IF output_dir # <<>> /\ ~Exists(c.w, output_dir)
             THEN LET m == makedirs(c.w, output_dir, fault.at = "makedirs")
                  IN  IF ~m.ok THEN Fail(e, log_exception(context, target))
                      ELSE [e EXCEPT !.w = m.w]
             ELSE e

\* Lines 174-176 (and 268-269): open(output_file, 'wb') empties or creates
\* the file, then the bytes are written; a write that fails leaves the
\* first fault.cut bytes.
write_out(c, output_file, bytes, fault, context, target) ==
    IF c.done THEN c
    ELSE LET e == Enter(c, "write")
         IN  IF fault.at = "open" \/ ~CanOpenForWrite(c.w, output_file)
             THEN Fail(e, log_exception(context, target))
             ELSE IF fault.at = "write" /\ fault.cut < Len(bytes)
             THEN Fail([e EXCEPT !.w = WriteFile(@, output_file,
                                                 SubSeq(bytes, 1, fault.cut))],
                       log_exception(context, target))
             ELSE [e EXCEPT !.w = WriteFile(@, output_file, bytes)]

\* Line 181.
ReturnTrue(c) == IF c.done THEN c ELSE [c EXCEPT !.done = TRUE, !.ret = TRUE]

\* Lines 168-179.
conv_write(c, output_file, fault) ==
    write_out(ensure_dir(c, output_file, fault, "write", output_file),
              output_file, c.header \o c.data, fault, "write", output_file)

convert_to_hybrid(w, input_file, output_file, root_dir, now, fault) ==
    ReturnTrue(
     conv_write(
      conv_read(
       conv_header(
        conv_getsize(
         conv_relpath(
          conv_hash(
           conv_validate(Frame(w), input_file, fault),
           input_file, fault),
          input_file, root_dir),
         input_file, fault),
        input_file, now),
       input_file, fault),
      output_file, fault))

(***************************************************************************)
(* ContainerReader.                                                        *)
(***************************************************************************)
\* parse_hybrid_header: c.none is "returned None", else c.info is the dict.
parse_hybrid_header(c, dat_file, fault) ==
    LET r == read_file(c.w, dat_file, fault.at = "open_dat")
        e == Enter(c, "parse")
    IN  IF ~r.ok
        THEN [e EXCEPT !.none = TRUE,
                       !.log = Append(@, log_exception("parse", dat_file))]
        ELSE LET n == IF Len(r.val) < HYBRID_HEADER_SIZE THEN Len(r.val)
                      ELSE HYBRID_HEADER_SIZE
                 p == parse_header_bytes(SubSeq(r.val, 1, n))
             IN  IF p.res = "short"
                 THEN [e EXCEPT !.none = TRUE,
                          !.log = Append(@, log_error("header_size", dat_file))]
                 ELSE IF p.res = "decode"
                 THEN [e EXCEPT !.none = TRUE,
                          !.log = Append(@, log_exception("parse", dat_file))]
                 ELSE [e EXCEPT !.info = p.info]

\* Lines 240-243: "if not header_info": None or an empty dict.
ext_parse(c, dat_file, fault) ==
    LET p == parse_hybrid_header(c, dat_file, fault)
    IN  IF p.none \/ DOMAIN p.info = {}
        THEN [p EXCEPT !.done = TRUE, !.ret = FALSE]
        ELSE p

\* Lines 245-249; an error is caught by the handler of lines 273-275.
ext_read(c, dat_file, fault) ==
    IF c.done THEN c
    ELSE LET r == read_file(c.w, dat_file, fault.at = "read")
             e == Enter(c, "read")
         IN  IF ~r.ok THEN Fail(e, log_exception("extract", dat_file))
             ELSE [e EXCEPT !.data =
                      SubSeq(r.val, HYBRID_HEADER_SIZE + 1, Len(r.val))]

\* ext_verify checking the payload against the header's Size, not its SHA256.
ext_verify_size(c, dat_file) ==
    IF c.done THEN c
    ELSE LET e == [Enter(c, "verify") EXCEPT !.sha = sha256_hexdigest(c.data)]
         IN  IF Dec(Len(c.data)) # DictGet(c.info, T_SIZE, <<>>)
             THEN Fail(e, log_error("sha256_mismatch", dat_file))
             ELSE e

\* ext_verify logging the mismatch without returning False.
ext_verify_noreturn(c, dat_file) ==
    IF c.done THEN c
    ELSE LET e == [Enter(c, "verify") EXCEPT !.sha = sha256_hexdigest(c.data)]
         IN  IF e.sha # DictGet(c.info, T_SHA256, <<>>)
             THEN [e EXCEPT !.log = Append(@, log_error("sha256_mismatch",
                                                        dat_file))]
             ELSE e

\* Lines 251-260.
ext_verify(c, dat_file) ==
    IF c.done THEN c
    ELSE LET e == [Enter(c, "verify") EXCEPT !.sha = sha256_hexdigest(c.data)]
         IN  IF e.sha # DictGet(c.info, T_SHA256, <<>>)
             THEN Fail(e, log_error("sha256_mismatch", dat_file))
             ELSE e

\* Lines 262-269.
ext_write(c, dat_file, output_file, fault) ==
    write_out(ensure_dir(c, output_file, fault, "extract", dat_file),
              output_file, c.data, fault, "extract", dat_file)

extract_binary_from_hybrid(w, dat_file, output_file, fault) ==
    ReturnTrue(
     ext_write(
      ext_verify(
       ext_read(
        ext_parse(Frame(w), dat_file, fault),
        dat_file, fault),
       dat_file),
      dat_file, output_file, fault))

(***************************************************************************)
(* The files and inputs of the model.                                      *)
(***************************************************************************)
N_images == <<105, 109, 97, 103, 101, 115>>
N_out == <<111, 117, 116>>
N_restored == <<114, 101, 115, 116, 111, 114, 101, 100>>
N_junk == <<106, 117, 110, 107>>
N_a_jpg == <<97, 46, 106, 112, 103>>
N_b_png == <<98, 46, 112, 110, 103>>
N_s_jpg == <<115, 46, 106, 112, 103>>
N_gone_jpg == <<103, 111, 110, 101, 46, 106, 112, 103>>
N_d_dat == <<100, 46, 100, 97, 116>>
N_r_jpg == <<114, 46, 106, 112, 103>>
N_e_dat == <<101, 46, 100, 97, 116>>
N_t_dat == <<116, 46, 100, 97, 116>>
N_n_dat == <<110, 46, 100, 97, 116>>
N_u_dat == <<117, 46, 100, 97, 116>>
\* "x\nSHA256:0": a POSIX file name may hold a newline and a colon.
N_newline == <<120, 10, 83, 72, 65, 50, 53, 54, 58, 48>>
\* "2024-01-15T10:30:00Z"
T_NOW == <<50, 48, 50, 52, 45, 48, 49, 45, 49, 53, 84, 49, 48, 58, 51, 48,
           58, 48, 48, 90>>

\* The longest ASCII name that still fits the header beside a size of
\* MIN_FILE_SIZE, and a name of as many characters whose first one, U+00E9,
\* takes two bytes.
FitLen ==
    HYBRID_HEADER_SIZE - 1
        - Len(header_text(sha256_hexdigest(<<>>), <<>>, MIN_FILE_SIZE, T_NOW))
N_fits == [i \in 1 .. FitLen |-> 97 + (i % 26)]
N_wide == [i \in 1 .. FitLen |-> IF i = 1 THEN 233 ELSE 97 + (i % 26)]

PayloadA == [i \in 1 .. MIN_FILE_SIZE |-> (i * 7) % 256]
PayloadB == [i \in 1 .. (MIN_FILE_SIZE + MaxExtra) |-> (i * 13 + 5) % 256]
PayloadSmall == [i \in 1 .. (MIN_FILE_SIZE - 1) |-> (i * 3) % 256]

SrcA == <<N_images, N_a_jpg>>
SrcB == <<N_images, N_b_png>>
SrcSmall == <<N_images, N_s_jpg>>
SrcNewline == <<N_images, N_newline>>
SrcFits == <<N_images, N_fits>>
SrcWide == <<N_images, N_wide>>
SrcGone == <<N_images, N_gone_jpg>>
Sources == {SrcA, SrcB, SrcSmall, SrcNewline, SrcFits, SrcWide, SrcGone}

OutDat == <<N_out, N_d_dat>>
Restored == <<N_restored, N_r_jpg>>
JunkEmpty == <<N_junk, N_e_dat>>
JunkShort == <<N_junk, N_t_dat>>
JunkNoField == <<N_junk, N_n_dat>>
JunkNotUtf8 == <<N_junk, N_u_dat>>
DatFiles == {OutDat, JunkEmpty, JunkShort, JunkNoField, JunkNotUtf8}

Roots == {NoRoot, Root(<<>>), Root(<<N_junk>>)}

\* A well-formed container cut one byte short of its header; 200 bytes 'A'
\* and a payload; a header holding the byte 0xFF.
ShortContainer ==
    SubSeq(create_hybrid_header(sha256_hexdigest(<<>>), N_a_jpg, 0, T_NOW).bytes,
           1, HYBRID_HEADER_SIZE - 1)
NoFieldContainer == [i \in 1 .. (HYBRID_HEADER_SIZE + 2) |-> 65]
NotUtf8Container == [i \in 1 .. HYBRID_HEADER_SIZE |-> IF i = 3 THEN 255 ELSE 65]

World0 ==
    [dirs |-> {<<N_images>>, <<N_junk>>},
     files |-> (SrcA :> PayloadA) @@ (SrcB :> PayloadB)
                @@ (SrcSmall :> PayloadSmall) @@ (SrcNewline :> PayloadA)
                @@ (SrcFits :> PayloadB) @@ (SrcWide :> PayloadA)
                @@ (JunkEmpty :> <<>>) @@ (JunkShort :> ShortContainer)
                @@ (JunkNoField :> NoFieldContainer)
                @@ (JunkNotUtf8 :> NotUtf8Container)]

\* Where a failing write may stop: inside the header, inside the payload.
Cuts == {HYBRID_HEADER_SIZE \div 2, HYBRID_HEADER_SIZE + MIN_FILE_SIZE \div 2}
WriteFaults == {[at |-> "write", cut |-> k] : k \in Cuts}
Fault(at) == [at |-> at, cut |-> 0]
ConvertFaults ==
    {NoFault} \cup WriteFaults
      \cup {Fault(a) : a \in {"getsize", "hash", "getsize2", "read",
                              "makedirs", "open"}}
ParseFaults == {NoFault, Fault("open_dat")}
ExtractFaults ==
    {NoFault} \cup WriteFaults
      \cup {Fault(a) : a \in {"open_dat", "read", "makedirs", "open"}}

\* The sizes SpecSize hands to validate_file_size: around the minimum and
\* around the largest size the margin lets through.
SizeLimit ==
    (MAX_FILE_SIZE_MB * 1024 * 1024 * SIZE_MARGIN_DEN) \div SIZE_MARGIN_NUM
SampleSizes ==
    ((MIN_FILE_SIZE - SizeWindow) .. (MIN_FILE_SIZE + SizeWindow))
      \cup ((SizeLimit - SizeWindow) .. (SizeLimit + SizeWindow))
      \cup {0}

(***************************************************************************)
(* State.                                                                  *)
(***************************************************************************)
VARIABLES
    world,    \* the filesystem
    errlog,   \* the entries of error.log, oldest first
    calls,    \* calls made so far
    last,     \* the last call: its arguments, the world before it, its frame
    made,     \* path -> payload, for the containers a successful
              \* convert_to_hybrid wrote that nothing has written to since
    origin,   \* the container as it was before a byte of it was changed
    logmod,   \* logger.py's module state: _global_logger and the
              \* ErrorLogger objects created so far
    threads   \* the calls running on threads: each one's position and locals

vars == <<world, errlog, calls, last, made, origin, logmod, threads>>

\* The threads, and a thread that has not been started.
Threads == {1, 2}
IdleThread ==
    [pc |-> "idle", call |-> [op |-> "none", input |-> <<>>, output |-> <<>>],
     saw_none |-> FALSE,
     logger |-> None, read_global |-> FALSE, wrote_global |-> FALSE,
     ret |-> FALSE, log |-> <<>>]
NoThreads == [t \in Threads |-> IdleThread]

NoCall == [op |-> "none"]
NoOrigin == [set |-> FALSE, path |-> <<>>, bytes |-> <<>>]

Init ==
    /\ world = World0
    /\ errlog = <<>>
    /\ calls = 0
    /\ last = NoCall
    /\ made = EmptyDict
    /\ origin = NoOrigin
    /\ logmod = LogMod0
    /\ threads = NoThreads

\* made after a call that may have written path p.
Forget(m, p) == [q \in (DOMAIN m) \ {p} |-> m[q]]

\* What last keeps of a frame: everything but the world.
Outcome(c) ==
    [ret |-> c.ret, none |-> c.none, log |-> c.log, steps |-> c.steps,
     sha |-> c.sha, rel |-> c.rel, size |-> c.size, header |-> c.header,
     info |-> c.info, raised |-> c.raised]

Convert(input_file, output_file, root_dir, fault) ==
    /\ \E c \in {convert_to_hybrid(world, input_file, output_file, root_dir,
                                   T_NOW, fault)} :
           /\ world' = c.w
           /\ errlog' = errlog \o c.log
           /\ last' = [op |-> "convert", input |-> input_file,
                       output |-> output_file, root |-> root_dir,
                       now |-> T_NOW, fault |-> fault, before |-> world,
                       res |-> Outcome(c)]
           /\ made' = IF c.ret THEN (output_file :> c.data) @@ made
                      ELSE IF c.w = world THEN made
                      ELSE Forget(made, output_file)
    /\ calls' = calls + 1
    /\ logmod' = get_logger(logmod, world, DefaultLogFile, FALSE).mod
    /\ UNCHANGED <<origin, threads>>

ParseHeader(dat_file, fault) ==
    /\ \E c \in {parse_hybrid_header(Frame(world), dat_file, fault)} :
           /\ errlog' = errlog \o c.log
           /\ last' = [op |-> "parse", input |-> dat_file, fault |-> fault,
                       before |-> world, res |-> Outcome(c)]
    /\ calls' = calls + 1
    /\ logmod' = get_logger(logmod, world, DefaultLogFile, FALSE).mod
    /\ UNCHANGED <<world, made, origin, threads>>

Extract(dat_file, output_file, fault) ==
    /\ \E c \in {extract_binary_from_hybrid(world, dat_file, output_file,
                                            fault)} :
           /\ world' = c.w
           /\ errlog' = errlog \o c.log
           /\ last' = [op |-> "extract", input |-> dat_file,
                       output |-> output_file, fault |-> fault,
                       before |-> world, res |-> Outcome(c)]
           /\ made' = IF c.w = world THEN made ELSE Forget(made, output_file)
    /\ calls' = calls + 1
    /\ logmod' = get_logger(logmod, world, DefaultLogFile, FALSE).mod
    /\ UNCHANGED <<origin, threads>>

\* The codec with a filesystem that does not fail.
Next ==
    \/ /\ calls < MaxCalls
       /\ \E i \in Sources, r \in Roots : Convert(i, OutDat, r, NoFault)
    \/ /\ calls < MaxCalls
       /\ \E d \in DatFiles : ParseHeader(d, NoFault)
    \/ /\ calls < MaxCalls
       /\ \E d \in DatFiles : \E o \in {Restored, d} : Extract(d, o, NoFault)

Spec == Init /\ [][Next]_vars

(***************************************************************************)
(* The codec on a filesystem whose system calls may fail.                  *)
(***************************************************************************)
\* The filesystem an earlier run left: SrcB converted to OutDat.
World1 == convert_to_hybrid(World0, SrcB, OutDat, NoRoot, T_NOW, NoFault).w

InitFaults ==
    /\ world \in {World0, World1}
    /\ errlog = <<>>
    /\ calls = 0
    /\ last = NoCall
    /\ made = IF world = World1 THEN (OutDat :> PayloadB) ELSE EmptyDict
    /\ origin = NoOrigin
    /\ logmod = LogMod0
    /\ threads = NoThreads

NextFaults ==
    \/ /\ calls < MaxFaultyCalls
       /\ \E i \in Sources, f \in ConvertFaults : Convert(i, OutDat, NoRoot, f)
    \/ /\ calls < MaxFaultyCalls
       /\ \E d \in DatFiles, f \in ParseFaults : ParseHeader(d, f)
    \/ /\ calls < MaxFaultyCalls
       /\ \E d \in DatFiles, f \in ExtractFaults : Extract(d, Restored, f)
    \/ /\ calls < MaxFaultyCalls
       /\ \E d \in DatFiles : Extract(d, d, NoFault)

SpecFaults == InitFaults /\ [][NextFaults]_vars

(***************************************************************************)
(* A byte of a container's payload is changed behind the codec's back.     *)
(***************************************************************************)
TamperDeltas == {1, 128}

Tamper(dat_file, pos, delta) ==
    /\ ~origin.set
    /\ dat_file \in DOMAIN world.files
    /\ pos > HYBRID_HEADER_SIZE
    /\ pos <= Len(world.files[dat_file])
    /\ origin' = [set |-> TRUE, path |-> dat_file,
                  bytes |-> world.files[dat_file]]
    /\ world' = [world EXCEPT !.files[dat_file][pos] = (@ + delta) % 256]
    /\ made' = Forget(made, dat_file)
    /\ last' = NoCall
    /\ UNCHANGED <<errlog, calls, logmod, threads>>

\* The filesystems earlier runs left: one source converted to OutDat.
InitTamper ==
    /\ \E i \in {SrcA, SrcB, SrcNewline} :
          \E c \in {convert_to_hybrid(World0, i, OutDat, NoRoot, T_NOW,
                                      NoFault)} :
              /\ world = c.w
              /\ made = (OutDat :> c.data)
    /\ errlog = <<>>
    /\ calls = 0
    /\ last = NoCall
    /\ origin = NoOrigin
    /\ logmod = LogMod0
    /\ threads = NoThreads

NextTamper ==
    \/ /\ calls = 0
       /\ \E pos \in (HYBRID_HEADER_SIZE + 1)
                       .. (HYBRID_HEADER_SIZE + MIN_FILE_SIZE + MaxExtra),
             delta \in TamperDeltas : Tamper(OutDat, pos, delta)
    \/ /\ calls < MaxTamperCalls
       /\ \E o \in {Restored, OutDat} : Extract(OutDat, o, NoFault)

SpecTamper == InitTamper /\ [][NextTamper]_vars

(***************************************************************************)
(* validate_file_size on its own, the size being of any file.              *)
(***************************************************************************)
ValidateSize(g) ==
    /\ last' = [op |-> "validate", getsize |-> g, res |-> validate_file_size(g)]
    /\ UNCHANGED <<world, errlog, calls, made, origin, logmod, threads>>

\* Config._load_transfer_config on the max_file_size_mb of config.ini:
\* ok = FALSE when it raises ConfigValidationError.
load_transfer_config(max_file_size_mb) ==
    IF max_file_size_mb <= 0 THEN [ok |-> FALSE, max_file_size_mb |-> 0]
    ELSE [ok |-> TRUE, max_file_size_mb |-> max_file_size_mb]

\* The values config.ini supplies, and the sizes around each one's limit.
ConfigValues == (0 .. MaxConfigMB) \cup {MAX_FILE_SIZE_MB}
ConfigLimit(mb) == (mb * 1024 * 1024 * SIZE_MARGIN_DEN) \div SIZE_MARGIN_NUM
ConfigSizes(mb) == (ConfigLimit(mb) - 1) .. (ConfigLimit(mb) + 1)

\* The size validation of a conversion in a run whose configuration was
\* loaded with max_file_size_mb = mb: main loads the configuration and hands
\* it to process_images, which calls convert_to_hybrid(input_file,
\* output_file, images_dir); validate_file_size gets the path alone.
ValidateConfigured(mb, g) ==
    /\ load_transfer_config(mb).ok
    /\ last' = [op |-> "validate_configured",
                config |-> load_transfer_config(mb), getsize |-> g,
                res |-> validate_file_size(g)]
    /\ UNCHANGED <<world, errlog, calls, made, origin, logmod, threads>>

NextSize ==
    \/ \E s \in SampleSizes : ValidateSize(Ok(s))
    \/ ValidateSize(OSError)
    \/ \E mb \in ConfigValues : \E s \in ConfigSizes(mb) :
          ValidateConfigured(mb, Ok(s))

SpecSize == Init /\ [][NextSize]_vars

(***************************************************************************)
(* The batch (main.py): process_images over the tree under images.         *)
(***************************************************************************)
DOT == 46

\* str.lower(), on the letters A-Z.
Lower(s) == [i \in 1 .. Len(s) |-> IF s[i] \in 65 .. 90 THEN s[i] + 32 ELSE s[i]]

\* os.path.splitext(s): the extension starts at the last '.' of the last
\* component, unless only dots come before it in that component.
os_path_splitext(s) ==
    LET sep == Max({0} \cup {i \in 1 .. Len(s) : s[i] = SLASH})
        dot == Max({0} \cup {i \in (sep + 1) .. Len(s) : s[i] = DOT})
    IN  IF dot = 0 \/ \A j \in (sep + 1) .. dot : s[j] = DOT
        THEN [root |-> s, ext |-> <<>>]
        ELSE [root |-> SubSeq(s, 1, dot - 1), ext |-> SubSeq(s, dot, Len(s))]

\* The components of a relative path string.
SplitPath(s) ==
    LET at == {i \in 1 .. Len(s) : s[i] = SLASH}
        pos(k) == IF k = 0 THEN 0
                  ELSE IF k > Cardinality(at) THEN Len(s) + 1
                  ELSE CHOOSE i \in at : Cardinality({j \in at : j <= i}) = k
    IN  [k \in 1 .. (Cardinality(at) + 1) |->
            SubSeq(s, pos(k - 1) + 1, pos(k) - 1)]

\* os.path.join(d, s) for a relative path string s.
os_path_join(d, s) == d \o SplitPath(s)

\* [Files] of config.ini as Config._load_files_config reads it by default:
\* ".jpg", ".jpeg", ".png", ".webp" and ".dat".
supported_extensions ==
    {<<46, 106, 112, 103>>, <<46, 106, 112, 101, 103>>, <<46, 112, 110, 103>>,
     <<46, 119, 101, 98, 112>>}
data_file_extension == <<46, 100, 97, 116>>

images_dir == <<N_images>>
output_dir == <<N_images, N_out>>

\* The entries of S directly in directory d.
Children(S, d) == {p \in S : Len(p) = Len(d) + 1 /\ SubSeq(p, 1, Len(d)) = d}

\* Name a sorts before name b.
NameLess(a, b) ==
    \E i \in 1 .. Len(b) :
        /\ i <= Len(a) + 1
        /\ \A j \in 1 .. (i - 1) : a[j] = b[j]
        /\ i = Len(a) + 1 \/ a[i] < b[i]

\* The entries S of one directory in the order the scan returns them: the
\* order is the filesystem's, here by name, ascending or (rev) descending.
Listed(S, rev) ==
    LET n == Cardinality(S)
        rank(x) == Cardinality({y \in S : NameLess(y[Len(y)], x[Len(x)])}) + 1
    IN  [i \in 1 .. n |->
            CHOOSE x \in S : rank(x) = IF rev THEN n + 1 - i ELSE i]

\* Lines 98-103: the files os.walk(images_dir) yields, top down, every
\* directory named "out" removed from the directories to descend into.
RECURSIVE walk_dir(_, _, _)
RECURSIVE walk_dirs(_, _, _)
walk_dir(w, d, rev) ==
    Listed(Children(DOMAIN w.files, d), rev)
      \o walk_dirs(w, Listed({q \in Children(w.dirs, d) : q[Len(q)] # N_out},
                             rev), rev)
walk_dirs(w, ds, rev) ==
    IF Len(ds) = 0 THEN <<>>
    ELSE walk_dir(w, ds[1], rev) \o walk_dirs(w, Tail(ds), rev)

\* Lines 84-90, and what the run has done so far: its conversions in order.
BatchFrame(w, m) ==
    [w |-> w, made |-> m, log |-> <<>>, attempts |-> <<>>,
     stats |-> [total |-> 0, success |-> 0, failed |-> 0, skipped |-> 0]]

\* Lines 115-117.
batch_output_file(input_file) ==
    LET rel_path == os_path_relpath(input_file, images_dir)
        output_basename == os_path_splitext(rel_path).root \o data_file_extension
    IN  os_path_join(output_dir, output_basename)

\* Lines 119-128, c the frame convert_to_hybrid returned.
batch_count(b, input_file, output_file, c) ==
    [w |-> c.w,
     made |-> IF c.ret THEN (output_file :> c.data) @@ b.made ELSE b.made,
     log |-> b.log \o c.log,
     attempts |-> Append(b.attempts, [input |-> input_file,
                                      output |-> output_file, ret |-> c.ret]),
     stats |-> [b.stats EXCEPT
                  !.total = @ + 1,
                  !.success = IF c.ret THEN @ + 1 ELSE @,
                  !.failed = IF c.ret THEN @ ELSE @ + 1]]

\* Lines 103-128 for one file of the walk.
batch_file(b, input_file) ==
    IF Lower(os_path_splitext(os_path_basename(input_file)).ext)
          \notin supported_extensions
    THEN b
    ELSE batch_count(b, input_file, batch_output_file(input_file),
                     convert_to_hybrid(b.w, input_file,
                                       batch_output_file(input_file),
                                       Root(images_dir), T_NOW, NoFault))

RECURSIVE batch_loop(_, _)
batch_loop(b, files) ==
    IF Len(files) = 0 THEN b
    ELSE batch_loop(batch_file(b, files[1]), Tail(files))

\* process_images(config), rev the order of the directory scans.
process_images(w, m, rev) ==
    IF ~Exists(w, images_dir) THEN BatchFrame(w, m)
    ELSE batch_loop(BatchFrame(w, m), walk_dir(w, images_dir, rev))

\* The trees a run may find under images: any of these files.
N_a_png == <<97, 46, 112, 110, 103>>
N_notes_txt == <<110, 111, 116, 101, 115, 46, 116, 120, 116>>
N_sub == <<115, 117, 98>>
N_A_JPG == <<65, 46, 74, 80, 71>>
BatchCandidates ==
    (<<N_images, N_a_jpg>> :> PayloadA)
      @@ (<<N_images, N_a_png>> :> PayloadB)
      @@ (<<N_images, N_s_jpg>> :> PayloadSmall)
      @@ (<<N_images, N_notes_txt>> :> PayloadA)
      @@ (<<N_images, N_sub, N_A_JPG>> :> PayloadB)
      @@ (<<N_images, N_sub, N_out, N_a_jpg>> :> PayloadA)
      @@ (<<N_images, N_out, N_a_jpg>> :> PayloadA)
BatchWorld(S) ==
    [dirs |-> {<<N_images>>}
                \cup UNION {Ancestors(os_path_dirname(p)) : p \in S},
     files |-> [p \in S |-> BatchCandidates[p]]]
NoImagesWorld == [dirs |-> {}, files |-> EmptyDict]

ProcessImages(rev) ==
    /\ \E b \in {process_images(world, made, rev)} :
           /\ world' = b.w
           /\ errlog' = errlog \o b.log
           /\ made' = b.made
           /\ last' = [op |-> "batch", rev |-> rev, before |-> world,
                       res |-> [stats |-> b.stats, attempts |-> b.attempts,
                                log |-> b.log]]
    /\ calls' = calls + 1
    /\ logmod' = get_logger(logmod, world, DefaultLogFile, FALSE).mod
    /\ UNCHANGED <<origin, threads>>

InitBatch ==
    /\ world \in {BatchWorld(S) : S \in SUBSET DOMAIN BatchCandidates}
                   \cup {NoImagesWorld}
    /\ errlog = <<>>
    /\ calls = 0
    /\ last = NoCall
    /\ made = EmptyDict
    /\ origin = NoOrigin
    /\ logmod = LogMod0
    /\ threads = NoThreads

NextBatch ==
    /\ calls < MaxBatchRuns
    /\ \E rev \in BOOLEAN : ProcessImages(rev)

SpecBatch == InitBatch /\ [][NextBatch]_vars

(***************************************************************************)
(* Two calls of the converter on separate threads.  A call begins with     *)
(* logger = get_logger() (lines 123, 198, 237), whose test, assignment and *)
(* return are separate steps of the thread; the rest of the call works on  *)
(* the call's own files and is taken as one step.                          *)
(***************************************************************************)
ThreadCalls(t) ==
    IF t = 1
    THEN {[op |-> "convert", input |-> SrcA, output |-> OutDat],
          [op |-> "convert", input |-> SrcSmall, output |-> OutDat]}
    ELSE {[op |-> "extract", input |-> JunkShort, output |-> Restored],
          [op |-> "parse", input |-> JunkNoField, output |-> <<>>],
          [op |-> "convert", input |-> SrcB,
           output |-> <<N_restored, N_d_dat>>]}

\* The call after logger = get_logger(): its frame when it returns.
RunCall(w, call) ==
    IF call.op = "convert"
    THEN convert_to_hybrid(w, call.input, call.output, NoRoot, T_NOW, NoFault)
    ELSE IF call.op = "extract"
    THEN extract_binary_from_hybrid(w, call.input, call.output, NoFault)
    ELSE parse_hybrid_header(Frame(w), call.input, NoFault)
Succeeded(call, c) == IF call.op = "parse" THEN ~c.none ELSE c.ret

ThreadStart(t, call) ==
    /\ threads[t].pc = "idle"
    /\ threads' = [threads EXCEPT ![t].pc = "test", ![t].call = call]
    /\ UNCHANGED <<world, errlog, calls, last, made, origin, logmod>>

\* Line 158: if _global_logger is None
ThreadTest(t) ==
    /\ threads[t].pc = "test"
    /\ threads' = [threads EXCEPT
                     ![t].saw_none = (logmod.global_logger = None),
                     ![t].read_global = TRUE,
                     ![t].pc = IF logmod.global_logger = None
                               THEN "assign" ELSE "return"]
    /\ UNCHANGED <<world, errlog, calls, last, made, origin, logmod>>

\* Line 159: _global_logger = ErrorLogger(log_file)
ThreadAssign(t) ==
    /\ threads[t].pc = "assign"
    /\ \E e \in {ErrorLogger(world, DefaultLogFile, FALSE)} :
           /\ world' = e.w
           /\ logmod' = [global_logger |-> Len(logmod.instances) + 1,
                         instances |-> Append(logmod.instances, e.self)]
    /\ threads' = [threads EXCEPT ![t].wrote_global = TRUE,
                                  ![t].pc = "return"]
    /\ UNCHANGED <<errlog, calls, last, made, origin>>

\* Line 160: return _global_logger
ThreadReturn(t) ==
    /\ threads[t].pc = "return"
    /\ threads' = [threads EXCEPT ![t].logger = logmod.global_logger,
                                  ![t].read_global = TRUE,
                                  ![t].pc = "body"]
    /\ UNCHANGED <<world, errlog, calls, last, made, origin, logmod>>

ThreadBody(t) ==
    /\ threads[t].pc = "body"
    /\ \E c \in {RunCall(world, threads[t].call)} :
           /\ world' = c.w
           /\ errlog' = errlog \o c.log
           /\ made' = IF threads[t].call.op = "convert" /\ c.ret
                      THEN (threads[t].call.output :> c.data) @@ made
                      ELSE IF c.w = world THEN made
                      ELSE Forget(made, threads[t].call.output)
           /\ threads' = [threads EXCEPT
                            ![t].ret = Succeeded(threads[t].call, c),
                            ![t].log = c.log,
                            ![t].pc = "done"]
    /\ calls' = calls + 1
    /\ UNCHANGED <<last, origin, logmod>>

NextThreads ==
    \/ \E t \in Threads : \E call \in ThreadCalls(t) : ThreadStart(t, call)
    \/ \E t \in Threads : ThreadTest(t)
    \/ \E t \in Threads : ThreadAssign(t)
    \/ \E t \in Threads : ThreadReturn(t)
    \/ \E t \in Threads : ThreadBody(t)

SpecThreads == Init /\ [][NextThreads]_vars

(***************************************************************************)
(* A conversion whose write stops part way, and the extraction of what it  *)
(* left.                                                                   *)
(***************************************************************************)
\* The sources whose conversion reaches the write, and the container each
\* conversion writes when nothing stops it.
InterruptSources == {SrcA, SrcB, SrcNewline, SrcFits}
FullContainer ==
    [i \in InterruptSources |->
        convert_to_hybrid(World0, i, OutDat, NoRoot, T_NOW, NoFault)
            .w.files[OutDat]]

NextInterrupt ==
    \/ /\ calls = 0
       /\ \E i \in InterruptSources :
             \E k \in 0 .. (Len(FullContainer[i]) - 1) :
                Convert(i, OutDat, NoRoot, [at |-> "write", cut |-> k])
    \/ /\ calls \in 1 .. MaxInterruptedExtracts
       /\ Extract(OutDat, Restored, NoFault)

SpecInterrupt == Init /\ [][NextInterrupt]_vars

(***************************************************************************)
(* get_logger called again and again, with any log_file.                   *)
(***************************************************************************)
N_logs == <<108, 111, 103, 115>>
N_other_log == <<111, 116, 104, 101, 114, 46, 108, 111, 103>>
LogFiles == {DefaultLogFile, <<N_logs, N_error_log>>, <<N_junk, N_other_log>>}

\* What the calls of get_logger so far have returned, oldest first.
Returned == IF last.op = "get_logger" THEN last.returned ELSE <<>>

GetLogger(log_file, failed) ==
    /\ calls < MaxLoggerCalls
    /\ \E r \in {get_logger(logmod, world, log_file, failed)} :
           /\ world' = r.w
           /\ logmod' = r.mod
           /\ last' = [op |-> "get_logger", log_file |-> log_file,
                       failed |-> failed, before |-> world,
                       res |-> [raised |-> r.raised, ret |-> r.ret],
                       returned |->
                          IF r.raised THEN Returned
                          ELSE Append(Returned, [logger |-> r.ret,
                                                 log_file |-> log_file])]
    /\ calls' = calls + 1
    /\ UNCHANGED <<errlog, made, origin, threads>>

NextLogger ==
    \/ \E f \in LogFiles : GetLogger(f, FALSE)
    \/ \E f \in LogFiles : GetLogger(f, TRUE)

SpecLogger == Init /\ [][NextLogger]_vars

(***************************************************************************)
(* create_hybrid_header on its own: paths and sizes around the budget.     *)
(***************************************************************************)
\* A 64-character hash, and the bytes of the text that are neither path nor
\* size digits.
SampleHash == sha256_hexdigest(PayloadA)
FixedTextLen == Len(Utf8Bytes(header_text(SampleHash, <<>>, 0, T_NOW))) - 1

\* Paths of n characters, the first one of one, two or three bytes in
\* UTF-8, or a lone surrogate that does not encode at all.
FirstChars == {97, 233, 8364, 56448}
SamplePath(n, first) == [i \in 1 .. n |-> IF i = 1 THEN first ELSE 97 + (i % 26)]
PathLengths ==
    LET mid == HYBRID_HEADER_SIZE - FixedTextLen - PathWindow
    IN  (mid - PathWindow) .. (mid + PathWindow)
\* Sizes of one, three, four and eight digits.
HeaderSizes == {7, MIN_FILE_SIZE, 4096, SizeLimit}

CreateHeader(sha256_hash, relative_path, original_size) ==
    /\ last' = [op |-> "create_header", sha |-> sha256_hash,
                rel |-> relative_path, size |-> original_size, now |-> T_NOW,
                res |-> create_hybrid_header(sha256_hash, relative_path,
                                             original_size, T_NOW)]
    /\ UNCHANGED <<world, errlog, calls, made, origin, logmod, threads>>

NextHeader ==
    /\ last = NoCall
    /\ \E n \in PathLengths, first \in FirstChars, s \in HeaderSizes :
          CreateHeader(SampleHash, SamplePath(n, first), s)

SpecHeader == Init /\ [][NextHeader]_vars

(***************************************************************************)
(* convert_to_hybrid one step at a time, while another process rewrites    *)
(* the source file.                                                        *)
(***************************************************************************)
\* The sources a call is given, and what the other process may leave in the
\* source: the same length with other bytes, a byte longer, a byte shorter
\* than the minimum, or the first payload again.
ChangingSources == {SrcA, SrcB, SrcSmall}
PayloadRewritten == [i \in 1 .. MIN_FILE_SIZE |-> (i * 11 + 1) % 256]
ChangedContents == {PayloadA, PayloadRewritten, PayloadB, PayloadSmall}

\* The pc-th statement of convert_to_hybrid's try block (lines 126-181):
\* the four of them that touch the source are 1 (getsize, line 56), 2 (the
\* read of lines 34-37), 4 (getsize, line 150) and 6 (the read of lines
\* 161-162).
conv_step(c, pc, input_file, output_file, root_dir, now, fault) ==
    CASE pc = 1 -> conv_validate(c, input_file, fault)
      [] pc = 2 -> conv_hash(c, input_file, fault)
      [] pc = 3 -> conv_relpath(c, input_file, root_dir)
      [] pc = 4 -> conv_getsize(c, input_file, fault)
      [] pc = 5 -> conv_header(c, input_file, now)
      [] pc = 6 -> conv_read(c, input_file, fault)
      [] OTHER -> ReturnTrue(conv_write(c, output_file, fault))

\* Line 123: the call has its logger and is about to enter the try block.
ConvertCall(input_file, output_file, root_dir) ==
    /\ calls < MaxChangingCalls
    /\ last.op # "converting"
    /\ last' = [op |-> "converting", pc |-> 1, input |-> input_file,
                output |-> output_file, root |-> root_dir, now |-> T_NOW,
                fault |-> NoFault, before |-> world, frame |-> Frame(world),
                changed |-> <<>>]
    /\ logmod' = get_logger(logmod, world, DefaultLogFile, FALSE).mod
    /\ UNCHANGED <<world, errlog, calls, made, origin, threads>>

\* The next statement of the running call, on the filesystem as it is now;
\* a statement that returns ends the call.
ConvertStep ==
    /\ last.op = "converting"
    /\ \E c \in {conv_step([last.frame EXCEPT !.w = world], last.pc,
                           last.input, last.output, last.root, last.now,
                           last.fault)} :
           /\ world' = c.w
           /\ IF c.done
              THEN /\ last' = [op |-> "convert", input |-> last.input,
                               output |-> last.output, root |-> last.root,
                               now |-> last.now, fault |-> last.fault,
                               before |-> last.before, res |-> Outcome(c),
                               changed |-> last.changed]
                   /\ errlog' = errlog \o c.log
                   /\ calls' = calls + 1
                   /\ made' = IF c.ret THEN (last.output :> c.data) @@ made
                              ELSE IF c.w = world THEN made
                              ELSE Forget(made, last.output)
              ELSE /\ last' = [last EXCEPT !.pc = @ + 1, !.frame = c]
                   /\ UNCHANGED <<errlog, calls, made>>
    /\ UNCHANGED <<origin, logmod, threads>>

\* Another process writes the source file while the call is running; what
\* it wrote, and before which statement, is kept with the call.
SourceChanged(bytes) ==
    /\ last.op = "converting"
    /\ Len(last.changed) < MaxSourceChanges
    /\ last.input \in DOMAIN world.files
    /\ world.files[last.input] # bytes
    /\ world' = WriteFile(world, last.input, bytes)
    /\ last' = [last EXCEPT !.frame.w = world',
                            !.changed = Append(@, [pc |-> last.pc,
                                                   bytes |-> bytes])]
    /\ UNCHANGED <<errlog, calls, made, origin, logmod, threads>>

NextChanging ==
    \/ \E i \in ChangingSources : ConvertCall(i, OutDat, NoRoot)
    \/ ConvertStep
    \/ \E b \in ChangedContents : SourceChanged(b)

SpecChanging == Init /\ [][NextChanging]_vars

(***************************************************************************)
(* The claims.                                                             *)
(***************************************************************************)
ConvertReturned == last.op = "convert"
ParseReturned == last.op = "parse"
ExtractReturned == last.op = "extract"

\* The steps of convert_to_hybrid in the order of the code.
ConvertOrder ==
    <<"validate", "hash", "relpath", "getsize", "header", "read", "mkdir",
      "write">>
IsPrefix(a, b) == Len(a) <= Len(b) /\ SubSeq(b, 1, Len(a)) = a
LastStep(st) == IF Len(st) = 0 THEN "" ELSE st[Len(st)]
InSteps(st, x) == \E i \in 1 .. Len(st) : st[i] = x

\* The relative path convert_to_hybrid records for the last call's arguments.
RecordedPath ==
    IF last.root.given THEN os_path_relpath(last.input, last.root.path)
    ELSE os_path_basename(last.input)

\* What a container's bytes decode to.
PayloadOf(bytes) == SubSeq(bytes, HYBRID_HEADER_SIZE + 1, Len(bytes))
HeaderOf(bytes) == SubSeq(bytes, 1, HYBRID_HEADER_SIZE)
Field(bytes, key) == DictGet(parse_header_bytes(HeaderOf(bytes)).info, key, <<>>)

\* A container whose header's SHA256 is the digest of its payload.
ValidContainer(bytes) ==
    /\ Len(bytes) >= HYBRID_HEADER_SIZE
    /\ parse_header_bytes(HeaderOf(bytes)).res = "ok"
    /\ Field(bytes, T_SHA256) = sha256_hexdigest(PayloadOf(bytes))

\* C1: round trip.  A source of valid size whose header encodes converts
\* successfully (the filesystem not failing), and extracting a container
\* that convert_to_hybrid wrote succeeds and writes exactly the payload.
C1_RoundTrip ==
    /\ ( /\ ConvertReturned
         /\ last.fault = NoFault
         /\ last.input \in DOMAIN last.before.files
         /\ validate_file_size(Ok(Len(last.before.files[last.input]))).valid
         /\ create_hybrid_header(
               sha256_hexdigest(last.before.files[last.input]), RecordedPath,
               Len(last.before.files[last.input]), last.now).ok )
       => last.res.ret
    /\ ( /\ ExtractReturned
         /\ last.fault = NoFault
         /\ last.input \in DOMAIN made )
       => /\ last.res.ret
          /\ last.output \in DOMAIN world.files
          /\ world.files[last.output] = made[last.input]

\* C2: whenever convert_to_hybrid returns True the destination is the 200
\* header bytes followed by the source's bytes, and the header's SHA256,
\* Size and Offset fields are the payload's digest, its length and 200.
C2_WellFormed ==
    (ConvertReturned /\ last.res.ret) =>
        /\ last.output \in DOMAIN world.files
        /\ LET d == world.files[last.output]
               src == last.before.files[last.input]
           IN  /\ Len(d) = 200 + Len(src)
               /\ PayloadOf(d) = src
               /\ Field(d, T_SHA256) = sha256_hexdigest(PayloadOf(d))
               /\ Field(d, T_SIZE) = Dec(Len(PayloadOf(d)))
               /\ Field(d, T_OFFSET) = <<50, 48, 48>>

\* The container before the change was valid, and differs from the file
\* now extracted in exactly one byte, of the payload.
OneByteChanged ==
    /\ origin.set
    /\ last.input = origin.path
    /\ ValidContainer(origin.bytes)
    /\ LET now_ == last.before.files[last.input] IN
       /\ Len(now_) = Len(origin.bytes)
       /\ \E p \in 201 .. Len(now_) :
             /\ now_[p] # origin.bytes[p]
             /\ \A q \in 1 .. Len(now_) : q # p => now_[q] = origin.bytes[q]

\* C3: tamper detection.  Extracting a valid container one byte of whose
\* payload was changed fails with the integrity mismatch, and the call
\* creates or writes neither the destination nor its directory.
C3_TamperDetected ==
    (ExtractReturned /\ OneByteChanged) =>
        /\ ~last.res.ret
        /\ world = last.before
        /\ Len(last.res.log) = 1
        /\ last.res.log[1].what = "sha256_mismatch"

C3_Witness ==
    /\ ExtractReturned
    /\ OneByteChanged
    /\ ~last.res.ret
    /\ last.output = Restored
    /\ world.files[OutDat][Len(world.files[OutDat])]
          # origin.bytes[Len(origin.bytes)]

\* The header create_hybrid_header builds from what the last call computed.
BuiltHeader ==
    create_hybrid_header(last.res.sha, last.res.rel, last.res.size, last.now)
BuiltText ==
    Utf8Bytes(header_text(last.res.sha, last.res.rel, last.res.size, last.now))
HeaderStepEntered == ConvertReturned /\ InSteps(last.res.steps, "header")

\* C4: header size invariant.  Whenever create_hybrid_header returns, its
\* buffer is exactly 200 bytes: the UTF-8 six-line text, then only zeros.
C4_HeaderSize ==
    (HeaderStepEntered /\ BuiltHeader.ok) =>
        /\ Len(BuiltHeader.bytes) = 200
        /\ Len(BuiltText) < 200
        /\ SubSeq(BuiltHeader.bytes, 1, Len(BuiltText)) = BuiltText
        /\ \A i \in (Len(BuiltText) + 1) .. 200 : BuiltHeader.bytes[i] = 0
        /\ last.res.header = BuiltHeader.bytes

\* A header whose text leaves room for exactly one padding zero.
C4_Witness ==
    /\ HeaderStepEntered
    /\ BuiltHeader.ok
    /\ Len(BuiltText) = 199
    /\ last.res.ret

C6_SizeBounds ==
    (last.op = "validate" /\ last.getsize.ok) =>
        LET s == last.getsize.val IN
        /\ last.res.valid <=> (200 <= s /\ s * 102 <= 1048576000)
        /\ s = 199 => (~last.res.valid /\ last.res.msg = MSG_TOO_SMALL)
        /\ s = 200 => last.res.valid
        /\ s = 10280156 => last.res.valid
        /\ s = 10280157 => (~last.res.valid /\ last.res.msg = MSG_TOO_LARGE)
        /\ s < 200 => last.res.msg = MSG_TOO_SMALL
        /\ s * 102 > 1048576000 => last.res.msg = MSG_TOO_LARGE
        /\ MSG_TOO_SMALL # MSG_TOO_LARGE

C6_Witness ==
    /\ last.op = "validate"
    /\ last.getsize.ok
    /\ last.getsize.val = 10280157
    /\ ~last.res.valid
    /\ last.res.msg = MSG_TOO_LARGE

\* The file the last call was to decode existed and was shorter than a header.
ShortInput ==
    /\ last.input \in DOMAIN last.before.files
    /\ Len(last.before.files[last.input]) < 200

\* C7: truncated-container rejection.  On a file shorter than 200 bytes
\* parse_hybrid_header returns None and extract_binary_from_hybrid returns
\* False, and neither creates or writes anything.
C7_TruncatedRejected ==
    /\ (ParseReturned /\ ShortInput) =>
          (last.res.none /\ world = last.before)
    /\ (ExtractReturned /\ ShortInput) =>
          (~last.res.ret /\ world = last.before)

C7_Witness ==
    /\ ExtractReturned
    /\ last.input = JunkShort
    /\ Len(last.before.files[JunkShort]) = 199
    /\ last.fault = NoFault
    /\ ~last.res.ret
    /\ Restored \notin DOMAIN world.files
    /\ <<N_restored>> \notin world.dirs

C9_ContainerUnchanged ==
    ( /\ ParseReturned \/ ExtractReturned
      /\ last.input \in DOMAIN last.before.files )
    => /\ last.input \in DOMAIN world.files
       /\ world.files[last.input] = last.before.files[last.input]

\* C10: no failure is silent.  A call that returns False (None for
\* parse_hybrid_header) has made exactly one entry in the error log.
C10_FailureLoggedOnce ==
    /\ (ConvertReturned /\ ~last.res.ret) => Len(last.res.log) = 1
    /\ (ParseReturned /\ last.res.none) => Len(last.res.log) = 1
    /\ (ExtractReturned /\ ~last.res.ret) => Len(last.res.log) = 1

\* C11: failures are result values, not exceptions.  No function of the
\* converter hands a failure to its caller by raising: in every call of
\* convert_to_hybrid, parse_hybrid_header or extract_binary_from_hybrid no
\* called function has left by an exception.
C11_FailuresAreResults ==
    (ConvertReturned \/ ParseReturned \/ ExtractReturned) =>
        last.res.raised = <<>>

\* The file at path p is located under the directory r.
Under(p, r) == Len(r) < Len(p) /\ SubSeq(p, 1, Len(r)) = r

\* C12: relative path step.  With a root given and the source not under
\* it, convert_to_hybrid fails at the relative path step with one logged
\* error and changes nothing; with a root given and the source under it the
\* recorded path is the source's path below the root; with no root it is
\* the source's bare file name.
C12_RelativePath ==
    (ConvertReturned /\ InSteps(last.res.steps, "relpath")) =>
        /\ (last.root.given /\ ~Under(last.input, last.root.path)) =>
              /\ ~last.res.ret
              /\ LastStep(last.res.steps) = "relpath"
              /\ Len(last.res.log) = 1
              /\ world = last.before
        /\ (last.root.given /\ Under(last.input, last.root.path)) =>
              last.res.rel =
                 Join(SubSeq(last.input, Len(last.root.path) + 1,
                             Len(last.input)), SLASH)
        /\ ~last.root.given => last.res.rel = last.input[Len(last.input)]

\* C13: the maximum size is the configured one.  In a run configured with
\* max_file_size_mb = M the size validation of a conversion rejects a size
\* s as too large exactly when s * 1.02 > M * 1024 * 1024.
C13_ConfiguredMaximum ==
    (last.op = "validate_configured" /\ last.getsize.ok) =>
        ((~last.res.valid /\ last.res.msg = MSG_TOO_LARGE)
            <=> last.getsize.val * 102
                   > last.config.max_file_size_mb * 1024 * 1024 * 100)

BatchReturned == last.op = "batch"

\* The files a run is to convert: under images, outside the output
\* directory images/out, with a supported extension.
HasSupportedExtension(p) ==
    Lower(os_path_splitext(p[Len(p)]).ext) \in supported_extensions
Eligible(w) ==
    {p \in DOMAIN w.files :
        /\ Under(p, images_dir)
        /\ ~Under(p, output_dir)
        /\ HasSupportedExtension(p)}
AttemptsOf(p) ==
    {i \in 1 .. Len(last.res.attempts) : last.res.attempts[i].input = p}

\* C14: the batch continues past bad inputs.  process_images attempts the
\* conversion of every eligible file exactly once and of no other file,
\* whatever the outcome of the files before it, and returns total =
\* success + failed with total the number of eligible files.
C14_BatchContinues ==
    BatchReturned =>
        /\ \A p \in Eligible(last.before) : Cardinality(AttemptsOf(p)) = 1
        /\ \A i \in 1 .. Len(last.res.attempts) :
              last.res.attempts[i].input \in Eligible(last.before)
        /\ last.res.stats.total = Cardinality(Eligible(last.before))
        /\ last.res.stats.total
              = last.res.stats.success + last.res.stats.failed
        /\ last.res.stats.failed
              = Cardinality({i \in 1 .. Len(last.res.attempts) :
                                ~last.res.attempts[i].ret})

\* A thread has written the process-wide _global_logger and another thread
\* has read or written it.
SharedGlobal ==
    \E t \in Threads : \E u \in Threads \ {t} :
        /\ threads[t].wrote_global
        /\ threads[u].read_global \/ threads[u].wrote_global
AllDone == \A t \in Threads : threads[t].pc = "done"

\* The two calls run one after the other from the initial world.
SeqFirst == RunCall(World0, threads[1].call)
SeqSecond == RunCall(SeqFirst.w, threads[2].call)

\* C15: independent calls share no mutable state.  No call reads or writes
\* a process-wide variable that another call writes, and two calls on
\* disjoint files on separate threads, however interleaved, leave the files
\* and return and log what they do when run one after the other.
C15_NoSharedState ==
    /\ ~SharedGlobal
    /\ AllDone =>
          /\ world = SeqSecond.w
          /\ threads[1].ret = Succeeded(threads[1].call, SeqFirst)
          /\ threads[2].ret = Succeeded(threads[2].call, SeqSecond)
          /\ threads[1].log = SeqFirst.log
          /\ threads[2].log = SeqSecond.log
          /\ Len(errlog) = Len(SeqFirst.log) + Len(SeqSecond.log)

\* The mapping parse_hybrid_header decodes from the header of the last call.
BuiltInfo == parse_header_bytes(BuiltHeader.bytes)

\* C16: header field recovery.  For every hash, relative path and size for
\* which create_hybrid_header succeeds, decoding the 200 bytes gives back
\* SHA256 = the hash, Path = the path, Size = the size in decimal, Offset =
\* "200" and Time = the whole timestamp, colons included.
C16_FieldRecovery ==
    (HeaderStepEntered /\ BuiltHeader.ok) =>
        /\ BuiltInfo.res = "ok"
        /\ DictGet(BuiltInfo.info, T_SHA256, <<>>) = last.res.sha
        /\ DictGet(BuiltInfo.info, T_PATH, <<>>) = last.res.rel
        /\ DictGet(BuiltInfo.info, T_SIZE, <<>>) = Dec(last.res.size)
        /\ DictGet(BuiltInfo.info, T_OFFSET, <<>>) = <<50, 48, 48>>
        /\ DictGet(BuiltInfo.info, T_TIME, <<>>) = last.now

\* The file the last call was to decode is what an interrupted write left:
\* a proper prefix of a container convert_to_hybrid writes.
InterruptedInput ==
    /\ last.input \in DOMAIN last.before.files
    /\ \E i \in InterruptSources :
          LET b == last.before.files[last.input] IN
          /\ Len(b) < Len(FullContainer[i])
          /\ b = SubSeq(FullContainer[i], 1, Len(b))

\* C17: interrupted writes are detected.  Whatever proper prefix of the
\* container a write that stopped has left, extract_binary_from_hybrid
\* returns False and writes nothing: the file is shorter than the header,
\* or the digest of its payload does not match the header.
C17_InterruptedWriteDetected ==
    (ExtractReturned /\ InterruptedInput) =>
        /\ ~last.res.ret
        /\ world = last.before
        /\ Len(last.res.log) = 1
        /\ \/ /\ Len(last.before.files[last.input]) < 200
              /\ last.res.log[1].what = "header_size"
           \/ /\ Len(last.before.files[last.input]) >= 200
              /\ last.res.log[1].what = "sha256_mismatch"

\* The write stopped one byte before the end of the payload.
C17_Witness ==
    /\ ExtractReturned
    /\ InterruptedInput
    /\ Len(last.before.files[last.input]) = Len(FullContainer[SrcA]) - 1
    /\ ~last.res.ret
    /\ last.res.log[1].what = "sha256_mismatch"
    /\ Restored \notin DOMAIN world.files

\* C18: logger singleton.  After any sequence of get_logger calls with any
\* log_file arguments every call has returned the same ErrorLogger, the one
\* the first call created; a later log_file creates no new one and leaves
\* the logger's log file as the first call set it.
C18_LoggerSingleton ==
    (last.op = "get_logger" /\ Len(last.returned) > 0) =>
        /\ \A i \in 1 .. Len(last.returned) :
              last.returned[i].logger = last.returned[1].logger
        /\ Len(logmod.instances) = 1
        /\ logmod.global_logger = last.returned[1].logger
        /\ logmod.instances[logmod.global_logger].log_file
              = last.returned[1].log_file

\* A later call asked for another log file and got the first logger.
C18_Witness ==
    /\ last.op = "get_logger"
    /\ Len(last.returned) >= 2
    /\ last.log_file # last.returned[1].log_file
    /\ ~last.res.raised
    /\ last.res.ret = last.returned[1].logger

\* Bytes of the path plus digits of the size, in the last header call.
BudgetUsed == Len(Utf8Bytes(last.rel)) + Len(Dec(last.size))

C20_BatchOutputsDistinct ==
    BatchReturned =>
        /\ \A i, j \in 1 .. Len(last.res.attempts) :
              i # j => last.res.attempts[i].output # last.res.attempts[j].output
        /\ \A i \in 1 .. Len(last.res.attempts) :
              last.res.attempts[i].ret =>
                 /\ last.res.attempts[i].output \in DOMAIN world.files
                 /\ PayloadOf(world.files[last.res.attempts[i].output])
                       = last.before.files[last.res.attempts[i].input]

\* C21: writer consistency under a changing source.  Whatever another
\* process writes to the source file between the statements of
\* convert_to_hybrid that touch it, a call that returns True has written a
\* container whose header SHA256 is the digest of the payload stored after
\* the header and whose header Size is that payload's length.
C21_ChangingSource ==
    (ConvertReturned /\ last.res.ret) =>
        /\ last.output \in DOMAIN world.files
        /\ Field(world.files[last.output], T_SHA256)
              = sha256_hexdigest(PayloadOf(world.files[last.output]))
        /\ Field(world.files[last.output], T_SIZE)
              = Dec(Len(PayloadOf(world.files[last.output])))

====
